---- MODULE Spec2Model ----
(***************************************************************************)
(* Model of Docmed.ai/medical_assistant_backend.py: a Flask server with    *)
(* two routes.  GET / (home) answers a static message.  POST               *)
(* /api/get-medical-info (get_medical_info) reads the JSON body, strips    *)
(* the prompt, calls the Gemini client once with a prompt text and a       *)
(* response schema, parses the returned text with json.loads and maps the  *)
(* outcome to a JSON response.                                             *)
(*                                                                         *)
(* Strings are sequences of characters.  A text returned by the provider   *)
(* is a sequence over TextSyms, where the three characters of the literal  *)
(* NaN are written as the single item "NaN".  Every modelled POST carries   *)
(* Content-Type: application/json, so request.get_json() either parses the *)
(* body or raises BadRequest.                                              *)
(***************************************************************************)
EXTENDS Integers, Sequences, FiniteSets, TLC

\* ---------------------------------------------------------------- bounds
NReq == 2           \* requests the server handles at the same time
MaxPromptLen == 1   \* longest prompt string a client sends
MaxTextLen == 2     \* longest text the provider returns

VARIABLES
    running,       \* the process is up (after lines 10-27 it is)
    phase,         \* per request slot: "idle", "calling" or "hung"
    body,          \* per slot: the request body being handled
    user_prompt,   \* per frame: the local user_prompt of get_medical_info
    invocation,    \* per slot: the arguments of the generate_content call
    calls,         \* per slot: generate_content calls made for the request
    last,          \* the most recent response the server sent
    sawFailure     \* some request was answered after the provider raised

vars == <<running, phase, body, user_prompt, invocation, calls, last,
          sawFailure>>

Slots == 1..NReq

SeqsUpTo(S, n) == UNION {[1..k -> S] : k \in 0..n}

Range(s) == {s[i] : i \in DOMAIN s}

\* ------------------------------------------------------- Python strings
Whitespace == {" "}

PromptChars == {" ", "a"}

RECURSIVE lstrip(_)
lstrip(s) == IF s # <<>> /\ Head(s) \in Whitespace THEN lstrip(Tail(s)) ELSE s

RECURSIVE rstrip(_)
rstrip(s) ==
    IF s # <<>> /\ s[Len(s)] \in Whitespace
    THEN rstrip(SubSeq(s, 1, Len(s) - 1))
    ELSE s

\* str.strip(): drop the leading and the trailing whitespace
strip(s) == rstrip(lstrip(s))

\* -------------------------------------------------- JSON values (Python)
\* Python objects carry their type: None, int, float nan, str, list, dict.
PyNone == [t |-> "None"]

PyInt(n) == [t |-> "int", v |-> n]

PyNaN == [t |-> "float", v |-> "nan"]

PyStr(s) == [t |-> "str", v |-> s]

PyList(l) == [t |-> "list", v |-> l]

PyDict(d) == [t |-> "dict", v |-> d]

\* hasattr(obj, "get"): only a dict has the method get
HasGet(obj) == obj.t = "dict"

\* hasattr(obj, "strip"): only a str has the method strip
HasStrip(obj) == obj.t = "str"

\* dict.get(key, default)
dict_get(d, key, default) == IF key \in DOMAIN d.v THEN d.v[key] ELSE default

\* ------------------------------------------------ json.loads (CPython)
\* The characters a provider text is made of.
TextSyms == {"[", "]", "1", "NaN", " "}

Texts == SeqsUpTo(TextSyms, MaxTextLen)

\* json.decoder.WHITESPACE matches runs of " \t\n\r"
JSONWhitespace == {" "}

\* s[i:i+1]: the character at i, or the empty string past the end
CharAt(s, i) == IF i >= 1 /\ i <= Len(s) THEN s[i] ELSE ""

\* the number of characters an item of a text stands for
Width(c) == IF c = "NaN" THEN 3 ELSE 1

\* the 0-based character offset of the item at index i (1-based)
RECURSIVE CharOffset(_, _)
CharOffset(s, i) ==
    IF i <= 1 THEN 0 ELSE CharOffset(s, i - 1) + Width(CharAt(s, i - 1))

\* WHITESPACE.match(s, i).end(): the index after the whitespace run at i
RECURSIVE skip_ws(_, _)
skip_ws(s, i) ==
    IF CharAt(s, i) \in JSONWhitespace THEN skip_ws(s, i + 1) ELSE i

\* NUMBER_RE.match(s, i).end(): the index after the digit run at i
RECURSIVE number_end(_, _)
number_end(s, i) == IF CharAt(s, i) = "1" THEN number_end(s, i + 1) ELSE i

\* int(s[i:j]) for a run of the digit 1
RECURSIVE int_of(_, _, _)
int_of(s, i, j) == IF j <= i THEN 0 ELSE 10 * int_of(s, i, j - 1) + 1

\* a value and the index after it
Parsed(val, end) == [ok |-> TRUE, val |-> val, end |-> end]

\* scan_once found no value at idx
StopIteration(idx) == [ok |-> FALSE, stop |-> TRUE, pos |-> idx]

\* raise JSONDecodeError(msg, s, pos)
JSONDecodeError(msg, idx) == [ok |-> FALSE, stop |-> FALSE, msg |-> msg, pos |-> idx]

\* py_make_scanner._scan_once and JSONArray, over TextSyms.  The separator
\* "," is not in TextSyms: after an element anything but "]" is an error.
RECURSIVE scan_once(_, _)
RECURSIVE JSONArray(_, _)
scan_once(s, idx) ==
    LET nextchar == CharAt(s, idx) IN
    CASE nextchar = "[" -> JSONArray(s, idx + 1)
      [] nextchar = "1" -> Parsed(PyInt(int_of(s, idx, number_end(s, idx))),
                                  number_end(s, idx))
      [] nextchar = "NaN" -> Parsed(PyNaN, idx + 1)
      [] OTHER -> StopIteration(idx)

JSONArray(s, end0) ==
    LET end1 == IF CharAt(s, end0) \in JSONWhitespace
                THEN skip_ws(s, end0 + 1) ELSE end0
    IN
    IF CharAt(s, end1) = "]" THEN Parsed(PyList(<<>>), end1 + 1)
    ELSE
      LET r == scan_once(s, end1) IN
      IF ~r.ok THEN (IF r.stop THEN JSONDecodeError("Expecting value", r.pos) ELSE r)
      ELSE
        LET end2 == IF CharAt(s, r.end) \in JSONWhitespace
                    THEN skip_ws(s, r.end + 1) ELSE r.end
        IN
        IF CharAt(s, end2) = "]" THEN Parsed(PyList(<<r.val>>), end2 + 1)
        ELSE JSONDecodeError("Expecting ',' delimiter", end2)

\* JSONDecoder.raw_decode
raw_decode(s, idx) ==
    LET r == scan_once(s, idx) IN
    IF ~r.ok /\ r.stop THEN JSONDecodeError("Expecting value", r.pos) ELSE r

\* decode without the second WHITESPACE.match: trailing blanks are extra data
decode_no_trailing_ws(s) ==
    LET r == raw_decode(s, skip_ws(s, 1)) IN
    IF ~r.ok THEN r
    ELSE IF r.end # Len(s) + 1 THEN JSONDecodeError("Extra data", r.end) ELSE r

\* JSONDecoder.decode
decode(s) ==
    LET r == raw_decode(s, skip_ws(s, 1)) IN
    IF ~r.ok THEN r
    ELSE LET end == skip_ws(s, r.end) IN
         IF end # Len(s) + 1 THEN JSONDecodeError("Extra data", end) ELSE r

\* an exception object: its class and str(e), a text written as its parts
Exc(cls, str) == [cls |-> cls, str |-> str]

\* a call's result: a value, or an exception raised
Returned(val) == [raised |-> FALSE, val |-> val]

Raised(e) == [raised |-> TRUE, exc |-> e]

\* json.loads(text): text is a Python object, a str or None
json_loads(text) ==
    IF text.t # "str"
    THEN Raised(Exc("TypeError",
                    <<"the JSON object must be str, bytes or bytearray, not NoneType">>))
    ELSE LET r == decode(text.v) IN
         IF r.ok THEN Returned(r.val)
         ELSE Raised(Exc("JSONDecodeError", <<r.msg, CharOffset(text.v, r.pos)>>))

\* ------------------------------------------------------ request bodies
\* A body that request.get_json() cannot parse (empty, or not JSON).
Malformed == [kind |-> "malformed"]

\* A body that parses to the Python object v.
JsonBody(v) == [kind |-> "json", value |-> v]

EmptyDict == PyDict([k \in {} |-> PyNone])

\* the values a client puts under the key "prompt"
PromptStrings == SeqsUpTo(PromptChars, MaxPromptLen)

PromptValues ==
    {PyStr(p) : p \in PromptStrings}
        \cup {PyNone, PyInt(1), PyList(<<>>), EmptyDict}

Bodies ==
    {Malformed}
        \cup {JsonBody(v) : v \in {PyNone, PyInt(1), PyStr(<<"a">>), PyList(<<>>)}}
        \cup {JsonBody(EmptyDict), JsonBody(PyDict([other |-> PyStr(<<"a">>)]))}
        \cup {JsonBody(PyDict([prompt |-> v])) : v \in PromptValues}

\* one body of each kind: unparseable, not an object, no prompt, a blank
\* prompt, a prompt that is not a string, a prompt with text
SampleBodies ==
    {Malformed, JsonBody(PyNone), JsonBody(EmptyDict),
     JsonBody(PyDict([prompt |-> PyStr(<<" ">>)])),
     JsonBody(PyDict([prompt |-> PyInt(1)])),
     JsonBody(PyDict([prompt |-> PyStr(<<"a">>)]))}

\* request.get_json(): the parsed body, or BadRequest
get_json(b) ==
    IF b.kind = "malformed"
    THEN Raised(Exc("BadRequest", <<"Failed to decode JSON object">>))
    ELSE Returned(b.value)

\* ----------------------------------------------------------- responses
\* jsonify(payload), status
JsonResponse(status, payload) == [status |-> status, json |-> payload]

\* what Flask answers when an exception leaves the view function: the
\* HTTPException's own page, or 500 Internal Server Error
FrameworkResponse(e) ==
    IF e.cls = "BadRequest"
    THEN [status |-> 400, html |-> "Bad Request"]
    ELSE [status |-> 500, html |-> "Internal Server Error"]

MissingPromptMsg == "Missing 'prompt' in request body."

FailedPrefix == "Failed to get medical information. Detail: "

HomeMessage == "Medical Assistant Backend is running. Endpoint: /api/get-medical-info"

\* line 91; a text is written as the sequence of its parts
MissingPromptResponse == JsonResponse(400, [error |-> <<MissingPromptMsg>>])

\* lines 112-115
SuccessResponse(response_data) ==
    JsonResponse(200, [success |-> TRUE, data |-> response_data])

\* line 120: the f-string is the prefix followed by str(e)
FailureResponse(e) == JsonResponse(500, [error |-> <<FailedPrefix>> \o e.str])

\* line 82
HomeResponse == JsonResponse(200, [message |-> HomeMessage])

\* ------------------------------------------------- schema and prompt
StringSchema == [type |-> "STRING"]

StringArraySchema == [type |-> "ARRAY", items |-> StringSchema]

\* the schema with important_disclaimer left out of required
get_medical_schema_no_disclaimer ==
    [type |-> "OBJECT",
     properties |-> [query |-> StringSchema,
                     potential_condition |-> StringSchema,
                     summary |-> StringSchema,
                     common_symptoms |-> StringArraySchema,
                     recommended_actions |-> StringArraySchema,
                     important_disclaimer |-> StringSchema],
     required |-> <<"query", "potential_condition", "summary">>]

get_medical_schema ==
    [type |-> "OBJECT",
     properties |-> [query |-> StringSchema,
                     potential_condition |-> StringSchema,
                     summary |-> StringSchema,
                     common_symptoms |-> StringArraySchema,
                     recommended_actions |-> StringArraySchema,
                     important_disclaimer |-> StringSchema],
     required |-> <<"query", "potential_condition", "summary",
                    "important_disclaimer">>]

\* the f-string of lines 68-74: fixed text around the user's input
create_medical_prompt(user_input) ==
    <<"You are a non-diagnostic medical information assistant. ... Based on the user's input: \"",
      user_input,
      "\". Generate a detailed, educational response strictly in a single JSON block following the provided schema.">>

\* lines 97-107: the arguments of gemini_client.models.generate_content
GenerateContentArgs(system_prompt) ==
    [model |-> "gemini-2.5-flash",
     contents |-> <<system_prompt>>,
     config |-> [response_mime_type |-> "application/json",
                 response_schema |-> get_medical_schema]]

NoInvocation == [model |-> "none"]

NoBody == [kind |-> "none"]

\* ------------------------------------------------------- the provider
\* what gemini_response.text can be: a str, or None when the reply has no text
ProviderTexts == {PyStr(t) : t \in Texts} \cup {PyNone}

\* what generate_content raises
ProviderErrors ==
    {Exc("ServerError", <<"503 UNAVAILABLE">>),
     Exc("ConnectError", <<"connection refused">>)}

\* how a generate_content call ends when it ends, for replies drawn from txts
Outcomes(txts) ==
    {[kind |-> "return", text |-> t] : t \in txts}
        \cup {[kind |-> "raise", exc |-> e] : e \in ProviderErrors}

ProviderOutcomes == Outcomes(ProviderTexts)

\* one reply of each kind: a number, an array, NaN, a broken array, no
\* characters, no text
SampleTexts ==
    {PyStr(<<"1">>), PyStr(<<"[", "]">>), PyStr(<<"NaN">>), PyStr(<<"[">>),
     PyStr(<<>>), PyNone}

SampleOutcomes == Outcomes(SampleTexts)

NoCall == [kind |-> "none"]

\* ---------------------------------------------------------- the handler
\* user_prompt kept in one module-level variable that every request writes
SharedFrame(r) == 1

\* The locals of an invocation of get_medical_info live in its own frame.
Frame(r) == r

\* lines 87-88: data = request.get_json(); data.get('prompt', '').strip()
ReadPrompt(b) ==
    LET data == get_json(b) IN
    IF data.raised THEN data
    ELSE IF ~HasGet(data.val)
    THEN Raised(Exc("AttributeError", <<"object has no attribute 'get'">>))
    ELSE LET p == dict_get(data.val, "prompt", PyStr(<<>>)) IN
         IF ~HasStrip(p)
         THEN Raised(Exc("AttributeError", <<"object has no attribute 'strip'">>))
         ELSE Returned(strip(p.v))

\* except json.JSONDecodeError in place of except Exception
CatchesJSONDecodeErrorOnly(cls) == cls = "JSONDecodeError"

\* line 117: except Exception catches every exception class of the model
Catches(cls) ==
    cls \in {"TypeError", "JSONDecodeError", "ServerError", "ConnectError",
             "AttributeError", "BadRequest"}

\* the log entry of a response of get_medical_info
InfoLog(b, out, n, resp) ==
    [route |-> "info", body |-> b, outcome |-> out, calls |-> n, resp |-> resp]

Init ==
    /\ running = TRUE
    /\ phase = [r \in Slots |-> "idle"]
    /\ body = [r \in Slots |-> NoBody]
    /\ user_prompt = [r \in Slots |-> <<>>]
    /\ invocation = [r \in Slots |-> NoInvocation]
    /\ calls = [r \in Slots |-> 0]
    /\ last = [route |-> "none"]
    /\ sawFailure = FALSE

\* a liveness route that reports 503 while a provider call is outstanding
home_probing_provider ==
    /\ running
    /\ last' = [route |-> "home",
                resp |-> IF \E r \in Slots : phase[r] # "idle"
                         THEN JsonResponse(503, [message |-> "provider busy"])
                         ELSE HomeResponse]
    /\ UNCHANGED <<running, phase, body, user_prompt, invocation, calls, sawFailure>>

\* lines 79-82
home ==
    /\ running
    /\ last' = [route |-> "home", resp |-> HomeResponse]
    /\ UNCHANGED <<running, phase, body, user_prompt, invocation, calls, sawFailure>>

\* lines 85-107: from the arrival of a POST up to the blocking call
get_medical_info_begin(r, bodies) ==
    /\ running
    /\ phase[r] = "idle"
    /\ \E b \in bodies :
         LET rp == ReadPrompt(b) IN
         IF rp.raised
         THEN /\ last' = InfoLog(b, NoCall, 0, FrameworkResponse(rp.exc))
              /\ UNCHANGED <<phase, body, user_prompt, invocation, calls>>
         ELSE /\ user_prompt' = [user_prompt EXCEPT ![Frame(r)] = rp.val]
              /\ IF user_prompt'[Frame(r)] = <<>>
                 THEN /\ last' = InfoLog(b, NoCall, 0, MissingPromptResponse)
                      /\ UNCHANGED <<phase, body, invocation, calls>>
                 ELSE /\ phase' = [phase EXCEPT ![r] = "calling"]
                      /\ body' = [body EXCEPT ![r] = b]
                      /\ invocation' =
                           [invocation EXCEPT ![r] =
                              GenerateContentArgs(
                                create_medical_prompt(user_prompt'[Frame(r)]))]
                      /\ calls' = [calls EXCEPT ![r] = calls[r] + 1]
                      /\ UNCHANGED last
    /\ UNCHANGED <<running, sawFailure>>

\* the request of slot r is answered with resp and its frame is dropped
Finish(r, out, resp) ==
    /\ last' = InfoLog(body[r], out, calls[r], resp)
    /\ phase' = [phase EXCEPT ![r] = "idle"]
    /\ body' = [body EXCEPT ![r] = NoBody]
    /\ user_prompt' = [user_prompt EXCEPT ![Frame(r)] = <<>>]
    /\ invocation' = [invocation EXCEPT ![r] = NoInvocation]
    /\ calls' = [calls EXCEPT ![r] = 0]
    /\ sawFailure' = (sawFailure \/ out.kind = "raise")
    /\ UNCHANGED running

\* lines 112-115
get_medical_info_return(r, out, response_data) ==
    Finish(r, out, SuccessResponse(response_data))

\* an except branch that calls generate_content a second time before giving up
get_medical_info_except_retry_once(r, out, e) ==
    IF out.kind = "raise" /\ calls[r] < 2
    THEN /\ calls' = [calls EXCEPT ![r] = calls[r] + 1]
         /\ UNCHANGED <<running, phase, body, user_prompt, invocation, last, sawFailure>>
    ELSE Finish(r, out, FailureResponse(e))

\* an except branch that calls generate_content again for as long as it
\* raises; the call count is kept as 1 or 2 to stay finite
get_medical_info_except_retry_forever(r, out, e) ==
    IF out.kind = "raise"
    THEN /\ calls' = [calls EXCEPT ![r] = 3 - calls[r]]
         /\ UNCHANGED <<running, phase, body, user_prompt, invocation, last, sawFailure>>
    ELSE Finish(r, out, FailureResponse(e))

\* lines 117-120
get_medical_info_except(r, out, e) ==
    IF Catches(e.cls)
    THEN Finish(r, out, FailureResponse(e))
    ELSE Finish(r, out, FrameworkResponse(e))

\* lines 103-120: the call ends and the handler runs to its return
get_medical_info_end(r, outs) ==
    /\ running
    /\ phase[r] = "calling"
    /\ \E out \in outs :
         LET res == IF out.kind = "raise" THEN Raised(out.exc)
                    ELSE json_loads(out.text)
         IN
         IF res.raised
         THEN get_medical_info_except(r, out, res.exc)
         ELSE get_medical_info_return(r, out, res.val)

\* lines 103-107: the call never returns; nothing bounds the wait
provider_hangs(r) ==
    /\ running
    /\ phase[r] = "calling"
    /\ phase' = [phase EXCEPT ![r] = "hung"]
    /\ UNCHANGED <<running, body, user_prompt, invocation, calls, last, sawFailure>>

Next ==
    \/ home
    \/ \E r \in Slots : get_medical_info_begin(r, Bodies)
    \/ \E r \in Slots : get_medical_info_end(r, SampleOutcomes)
    \/ \E r \in Slots : provider_hangs(r)

\* Requests overlap; the bodies are all of Bodies and the provider's replies
\* are drawn from SampleOutcomes.
Spec == Init /\ [][Next]_vars

SeqNext ==
    \/ home
    \/ get_medical_info_begin(1, Bodies)
    \/ get_medical_info_end(1, ProviderOutcomes)
    \/ provider_hangs(1)

\* One request at a time; the bodies are all of Bodies and the provider's
\* replies are all of ProviderOutcomes.
SeqSpec == Init /\ [][SeqNext]_vars

FairNext ==
    \/ home
    \/ \E r \in Slots : get_medical_info_begin(r, SampleBodies)
    \/ \E r \in Slots : get_medical_info_end(r, SampleOutcomes)
    \/ \E r \in Slots : provider_hangs(r)

\* Requests overlap; bodies and replies are drawn from the samples.  A call
\* that is in flight ends one way or the other, and the handler then runs
\* on: the server gives every request its own thread.
FairSpec ==
    /\ Init
    /\ [][FairNext]_vars
    /\ \A r \in Slots :
         WF_vars(get_medical_info_end(r, SampleOutcomes) \/ provider_hangs(r))

\* ======================================================== properties
\* ------------------------------------------------ what the claims speak of
IsInfo == last.route = "info"

InFlight(r) == phase[r] # "idle"

\* the body is a JSON object that has the key "prompt"
HasPromptKey(b) ==
    /\ b.kind = "json"
    /\ b.value.t = "dict"
    /\ "prompt" \in DOMAIN b.value.v

PromptOf(b) == b.value.v["prompt"]

AllWhitespace(str) == \A i \in DOMAIN str : str[i] \in Whitespace

\* prompt is absent, empty or whitespace-only
PromptMissing(b) ==
    \/ ~HasPromptKey(b)
    \/ PromptOf(b).t = "str" /\ AllWhitespace(PromptOf(b).v)

\* prompt is a string with a character that is not whitespace
TrimmedNonEmpty(b) ==
    /\ HasPromptKey(b)
    /\ PromptOf(b).t = "str"
    /\ ~AllWhitespace(PromptOf(b).v)

\* RFC 8259 over TextSyms: JSON-text = ws value ws, value = number / array,
\* array = "[" ws [ value ws ] "]" (no value-separator in TextSyms)
RECURSIVE JTrimLeft(_)
JTrimLeft(s) ==
    IF s # <<>> /\ Head(s) \in JSONWhitespace THEN JTrimLeft(Tail(s)) ELSE s

RECURSIVE JTrimRight(_)
JTrimRight(s) ==
    IF s # <<>> /\ s[Len(s)] \in JSONWhitespace
    THEN JTrimRight(SubSeq(s, 1, Len(s) - 1))
    ELSE s

JTrim(s) == JTrimRight(JTrimLeft(s))

IsJSONNumber(s) == s # <<>> /\ \A i \in DOMAIN s : s[i] = "1"

RECURSIVE IsJSONValue(_)
IsJSONValue(s) ==
    \/ IsJSONNumber(s)
    \/ /\ Len(s) >= 2
       /\ s[1] = "["
       /\ s[Len(s)] = "]"
       /\ LET inner == JTrim(SubSeq(s, 2, Len(s) - 1)) IN
          inner = <<>> \/ IsJSONValue(inner)

IsValidJSON(s) == IsJSONValue(JTrim(s))

RECURSIVE NumberValue(_)
NumberValue(s) ==
    IF s = <<>> THEN 0 ELSE 10 * NumberValue(SubSeq(s, 1, Len(s) - 1)) + 1

\* the value a valid JSON text denotes
RECURSIVE JSONValue(_)
JSONValue(s) ==
    LET t == JTrim(s) IN
    IF IsJSONNumber(t) THEN PyInt(NumberValue(t))
    ELSE LET inner == JTrim(SubSeq(t, 2, Len(t) - 1)) IN
         IF inner = <<>> THEN PyList(<<>>) ELSE PyList(<<JSONValue(inner)>>)

\* the provider returned a str
ReturnedText == IsInfo /\ last.outcome.kind = "return" /\ last.outcome.text.t = "str"

\* the response is one of the three documented JSON responses
IsMissingPrompt400(resp) == resp = MissingPromptResponse

IsSuccess200(resp) ==
    /\ resp.status = 200
    /\ "json" \in DOMAIN resp
    /\ DOMAIN resp.json = {"success", "data"}
    /\ resp.json.success = TRUE

IsFailure500(resp) ==
    /\ resp.status = 500
    /\ "json" \in DOMAIN resp
    /\ DOMAIN resp.json = {"error"}
    /\ Len(resp.json.error) >= 2
    /\ resp.json.error[1] = FailedPrefix

\* -------------------------------------------------------------------- C1
\* C1: every POST whose prompt is absent, empty or whitespace-only is
\* answered 400 with {"error": "Missing 'prompt' in request body."}, and no
\* generate_content call is made for it.
C1_MissingPromptIs400 ==
    /\ IsInfo /\ PromptMissing(last.body) =>
         /\ last.resp = MissingPromptResponse
         /\ last.calls = 0
         /\ last.outcome = NoCall
    /\ \A r \in Slots : InFlight(r) => ~PromptMissing(body[r])

\* -------------------------------------------------------------------- C2
\* C2: for a request with a non-empty trimmed prompt, when the provider
\* returns text that parses as JSON the response is 200 with
\* {"success": true, "data": D}, D being the value the text denotes.
C2_ParsedTextIsReturned ==
    ReturnedText /\ TrimmedNonEmpty(last.body) =>
        LET txt == last.outcome.text IN
        /\ ~json_loads(txt).raised =>
             last.resp = JsonResponse(200, [success |-> TRUE,
                                            data |-> json_loads(txt).val])
        /\ IsValidJSON(txt.v) =>
             last.resp = JsonResponse(200, [success |-> TRUE,
                                            data |-> JSONValue(txt.v)])

\* a reply with blanks around a JSON value was answered 200
C2_Witness ==
    /\ ReturnedText
    /\ TrimmedNonEmpty(last.body)
    /\ IsValidJSON(last.outcome.text.v)
    /\ \E i \in DOMAIN last.outcome.text.v : last.outcome.text.v[i] = " "
    /\ last.resp.status = 200

\* -------------------------------------------------------------------- C3
\* C3: when the provider returns text that is not syntactically valid JSON,
\* the response is 500 with the error "Failed to get medical information.
\* Detail: <failure description>".
C3_InvalidJSONIs500 ==
    ReturnedText /\ ~IsValidJSON(last.outcome.text.v) => IsFailure500(last.resp)

\* -------------------------------------------------------------------- C4
\* C4: a request whose provider call raises is answered 500 with the
\* failure error, the process stays up, and the server goes on handling
\* requests: a free slot accepts a POST and GET / is served.
C4_RaiseIs500AndServerStaysUp ==
    /\ IsInfo /\ last.outcome.kind = "raise" =>
         /\ last.resp = FailureResponse(last.outcome.exc)
         /\ last.resp.status = 500
    /\ running
    /\ ENABLED home
    /\ \A r \in Slots :
         phase[r] = "idle" => ENABLED get_medical_info_begin(r, Bodies)

\* after a request failed on a raising provider, a later one was answered 200
C4_Witness == sawFailure /\ IsInfo /\ last.resp.status = 200

\* -------------------------------------------------------------------- C5
\* C5: a request makes at most one generate_content call: one when its
\* trimmed prompt is non-empty, none otherwise; a request whose call raised
\* is answered 500 after that one call.
C5_AtMostOneCall ==
    /\ \A r \in Slots :
         /\ calls[r] <= 1
         /\ InFlight(r) => calls[r] = 1 /\ TrimmedNonEmpty(body[r])
         /\ ~InFlight(r) => calls[r] = 0
    /\ IsInfo =>
         /\ last.calls = IF TrimmedNonEmpty(last.body) THEN 1 ELSE 0
         /\ last.outcome.kind = "raise" =>
              last.calls = 1 /\ IsFailure500(last.resp)

\* a request was answered 500 after its single call raised
C5_Witness == IsInfo /\ last.outcome.kind = "raise" /\ last.calls = 1

\* -------------------------------------------------------------------- C6
\* C6 (as claimed): every request with a non-empty trimmed prompt is
\* eventually answered, also when the provider call never returns.
C6_EveryCallIsAnswered ==
    \A r \in Slots : (phase[r] = "calling") ~> (phase[r] = "idle")

\* C6 (amended): a call in flight ends in an answer or hangs; when it
\* returns or raises the request is answered at once with 200 or 500; a
\* request whose call hangs stays unanswered for ever.
C6_AnsweredUnlessHung ==
    /\ \A r \in Slots : (phase[r] = "calling") ~> (phase[r] \in {"idle", "hung"})
    /\ [][\A r \in Slots :
            /\ phase[r] = "hung" => phase'[r] = "hung" /\ body'[r] = body[r]
            /\ phase[r] = "calling" /\ phase'[r] = "idle" =>
                 /\ last'.route = "info"
                 /\ last'.body = body[r]
                 /\ last'.resp.status \in {200, 500}]_vars

\* one request hangs while another, whose call raised, has been answered
C6_Witness ==
    /\ \E r \in Slots : phase[r] = "hung"
    /\ IsInfo /\ last.outcome.kind = "raise" /\ last.resp.status = 500

\* -------------------------------------------------------------------- C7
\* C7: GET / is served in every state, answers 200 with the static message
\* whatever the provider calls are doing, and makes no generate_content call.
C7_HomeAlways200 ==
    /\ [](ENABLED home)
    /\ [](last.route = "home" => last.resp = HomeResponse)
    /\ [][last'.route = "home" /\ last' # last =>
            UNCHANGED <<phase, body, user_prompt, invocation, calls>>]_vars

\* GET / was answered while one call hangs, one is in flight and a request
\* has failed
C7_Witness ==
    /\ last.route = "home"
    /\ sawFailure
    /\ \E r \in Slots : phase[r] = "hung"
    /\ \E r \in Slots : phase[r] = "calling"

\* -------------------------------------------------------------------- C8
\* the response the request's own body and own call outcome determine
ResponseFor(b, out) ==
    IF b.kind = "malformed" THEN [status |-> 400, html |-> "Bad Request"]
    ELSE IF b.value.t # "dict" \/ (HasPromptKey(b) /\ PromptOf(b).t # "str")
    THEN [status |-> 500, html |-> "Internal Server Error"]
    ELSE IF PromptMissing(b) THEN MissingPromptResponse
    ELSE IF out.kind = "raise" THEN FailureResponse(out.exc)
    ELSE IF json_loads(out.text).raised
    THEN FailureResponse(json_loads(out.text).exc)
    ELSE SuccessResponse(json_loads(out.text).val)

\* C8: requests in flight together do not interfere: the locals and the
\* call arguments of a request are those of its own body, no step of
\* another request changes them, and a response is the one the request's
\* own body and own call outcome determine.
C8_NoInterference ==
    /\ [](\A r \in Slots :
            IF InFlight(r)
            THEN /\ TrimmedNonEmpty(body[r])
                 /\ user_prompt[r] = strip(PromptOf(body[r]).v)
                 /\ invocation[r] =
                      GenerateContentArgs(create_medical_prompt(user_prompt[r]))
            ELSE /\ body[r] = NoBody
                 /\ invocation[r] = NoInvocation)
    /\ [](IsInfo => last.resp = ResponseFor(last.body, last.outcome))
    /\ [][\A r \in Slots :
            InFlight(r) /\ phase'[r] = phase[r] =>
                /\ body'[r] = body[r]
                /\ user_prompt'[r] = user_prompt[r]
                /\ invocation'[r] = invocation[r]
                /\ calls'[r] = calls[r]]_vars

\* two requests are in flight and a third one has been answered 400
C8_Witness ==
    /\ \A r \in Slots : InFlight(r)
    /\ \E r \in Slots : phase[r] = "calling"
    /\ IsInfo /\ last.resp = MissingPromptResponse

\* -------------------------------------------------------------------- C9
RequiredFields(schema) == Range(schema.required)

OptionalFields(schema) == DOMAIN schema.properties \ RequiredFields(schema)

SchemaAsSpecified(schema) ==
    /\ RequiredFields(schema) =
         {"query", "potential_condition", "summary", "important_disclaimer"}
    /\ OptionalFields(schema) = {"common_symptoms", "recommended_actions"}
    /\ \A f \in OptionalFields(schema) :
         schema.properties[f] = [type |-> "ARRAY", items |-> [type |-> "STRING"]]
    /\ \A f \in RequiredFields(schema) :
         schema.properties[f] = [type |-> "STRING"]

\* C9: after any sequence of requests get_medical_schema yields the schema
\* with the four required fields and the two optional lists of strings, and
\* that schema goes with every generate_content call.
C9_SchemaIsFixed ==
    /\ SchemaAsSpecified(get_medical_schema)
    /\ \A r \in Slots :
         InFlight(r) =>
            /\ invocation[r].config.response_schema = get_medical_schema
            /\ SchemaAsSpecified(invocation[r].config.response_schema)

\* a call is in flight after earlier requests succeeded and failed
C9_Witness ==
    /\ sawFailure
    /\ IsInfo /\ last.resp.status = 200
    /\ \E r \in Slots : phase[r] = "calling"

\* ------------------------------------------------------------------- C10
\* C10: every POST, whatever its body, ends in one of the three documented
\* JSON responses: 400 missing prompt, 200 success/data, or 500 "Failed to
\* get medical information"; no exception leaves the handler.
C10_OnlyDocumentedResponses ==
    IsInfo =>
        \/ IsMissingPrompt400(last.resp)
        \/ IsSuccess200(last.resp)
        \/ IsFailure500(last.resp)

====
